---- MODULE Spec2Model ----
(***************************************************************************)
(* The resumable download manager of src/latest.py as a state machine.     *)
(*                                                                         *)
(* One run of main(): the HEAD size probe, the thread pool that runs       *)
(* download_file for every record, the as_completed loop that saves the    *)
(* whole catalog after every modified result, and the final save.  A run  *)
(* may be followed by another run that loads the saved catalog, and the    *)
(* process may be killed at any point of a run.                            *)
(*                                                                         *)
(* Sizes are counted in chunks: one unit is one chunk of iter_content.     *)
(* A record is identified by its index in file_list; category, filename    *)
(* and url never change and are that identity.                             *)
(*                                                                         *)
(* The environment: the server serves env.size chunks per file, answers    *)
(* HEAD with or without Content-Length, and honours or ignores Range.      *)
(* Faults (a failed HEAD or GET, a broken stream, os.makedirs or open      *)
(* raising, save_cache failing to write the cache file) are injected up    *)
(* to a budget.  Appending to failed_downloads.txt succeeds.               *)
(*                                                                         *)
(* Spec follows one record across runs and kills, with every remote size   *)
(* and server; SpecPool runs a catalog larger than the thread pool, run    *)
(* after run, with one-chunk files and a single fault; SpecFetch applies   *)
(* fetch_audio_list to every small site of category pages; SpecRetry runs   *)
(* the retry_request wrapper for every max_retries from 0 and every        *)
(* outcome of the wrapped calls; SpecWorking runs download_file of         *)
(* src/working.py on every small file and remote size.                     *)
(***************************************************************************)
EXTENDS Integers, FiniteSets, Sequences, TLC

\* ---------------------------------------------------------------- constants
\* CONFIG block of latest.py
max_threads == 3
max_retries == 3
\* CONFIG block of working.py
w_max_retries == 3

\* ------------------------------------------------------------------- bounds
\* records of the catalog in the pool specification
NumRecords == 4
\* largest remote file, in chunks
MaxSize == 3
\* environment faults (transport errors, filesystem errors) injected overall
MaxFaults == 3
\* runs of main() in one behaviour
MaxRuns == 3
\* category pages of the scanned site
MaxCats == 2
\* links on one category page
MaxLinks == 2
\* largest configured max_retries of the wrapper specification
MaxRetriesCfg == 3

NoFile == -1

VARIABLES
  retry,     \* a call of a retry_request wrapper, for any max_retries
  working,   \* a call of download_file of working.py and its file
  pages,     \* the audio hrefs found on each category page of the site
  fetch,     \* fetch_audio_list: the next category and file_list so far
  env,       \* the remote server and the catalog size, fixed for a behaviour
  items,     \* file_list: the in-memory catalog
  cache,     \* file_list_cache.json: the persisted catalog
  disk,      \* size of each destination file, NoFile when absent
  journal,   \* failed_downloads.txt: lines appended per url
  mpc,       \* where the main thread is
  headTodo,  \* HEAD futures not yet consumed by the size-check loop
  saving,    \* save_cache executions in progress, by what triggered them
  wpc,       \* where each record's download_file task is
  loc,       \* locals of each download_file call
  run        \* run number, faults injected, and per-run observations

vars == <<retry, working, pages, fetch, env, items, cache, disk, journal, mpc, headTodo, saving, wpc, loc, run>>

Recs == DOMAIN items

\* ------------------------------------------------------------------ records
\* fetch_audio_list: a new record
NewItem == [status |-> "pending", downloaded_bytes |-> 0, total_size |-> 0]

\* locals of a download_file call that is not running
NoLoc == [offset |-> 0, append |-> FALSE, attempt |-> 0, remaining |-> 0,
          gets |-> 0, sleeps |-> 0, logged |-> 0, modified |-> FALSE,
          err |-> "none"]

\* ------------------------------------------------------------------ helpers
IsCompleteOrFailed(it) == it.status # "pending"

\* line 160: the cache says "complete"
IsComplete(it) == it.status = "complete"

NeedsSizeCheckAll(it) == TRUE

\* line 223: files_to_check
NeedsSizeCheck(it) == it.status # "complete" /\ it.total_size = 0

ExistingSizeFromCache(it, dsk) == it.downloaded_bytes

\* lines 163-171: the larger of the cached count and the size on disk
ExistingSize(it, dsk) == IF dsk > it.downloaded_bytes THEN dsk ELSE it.downloaded_bytes

MoreAttemptsOffByOne(attempt) == attempt < max_retries - 2

\* line 129: another attempt follows a failed one
MoreAttempts(attempt) == attempt < max_retries - 1

\* the tasks a worker thread is executing (past the skip checks of download_file)
InFlight == {r \in Recs : wpc[r] \in {"stream", "sleep", "backfill"}}

WorkerAvailableUnbounded == TRUE

\* line 247: ThreadPoolExecutor(max_workers=max_threads)
WorkerAvailable == Cardinality(InFlight) < max_threads

LoopReadyAsync == TRUE

\* lines 252-258: save_cache is called in the loop body and returns before the
\* loop takes the next future
LoopReady == saving = {}

\* the server's answer to GET with the headers of line 179: the length of the
\* body, or -1 for 416 Range Not Satisfiable
BodyLength(offset) ==
  IF offset > 0 /\ env.honoursRange
  THEN IF offset >= env.size THEN -1 ELSE env.size - offset
  ELSE env.size

BackfilledSizeAlways(it) == it.downloaded_bytes

\* lines 197-198: total_size after a successful transfer: set from the count
\* only when it was unknown
BackfilledSize(it) == IF it.total_size = 0 THEN it.downloaded_bytes ELSE it.total_size

CanFault == run.faults < MaxFaults

\* line 142: open(filepath, mode) on a file of size dsk: 'ab' keeps an
\* existing file, 'wb' creates or truncates
Opened(append, dsk) == IF append /\ dsk # NoFile THEN dsk ELSE 0

OpenedBeforeStatusCheck(append, dsk) == Opened(append, dsk)

\* lines 140-142: raise_for_status() raises before open() is reached
AfterHttpError(append, dsk) == dsk

\* the run's observations after a network request, failed (a fault) or answered
NetFault == [run EXCEPT !.faults = @ + 1, !.net = TRUE]
NetOk == [run EXCEPT !.net = TRUE]

\* ------------------------------------------------------------ start of a run
\* lines 212-242 up to the submission of the HEAD requests, for catalog c
BeginRun(c, n, f) ==
  LET todo == {r \in DOMAIN c : NeedsSizeCheck(c[r])} IN
  /\ items' = c
  /\ headTodo' = todo
  /\ mpc' = IF todo = {} THEN "pool" ELSE "head"
  /\ saving' = {}
  /\ wpc' = [r \in DOMAIN c |-> "queued"]
  /\ loc' = [r \in DOMAIN c |-> NoLoc]
  /\ run' = [no |-> n, faults |-> f, loaded |-> c, disk0 |-> disk,
             net |-> FALSE, wrote |-> FALSE, saveFailed |-> FALSE]

\* the catalog came from elsewhere: fetch_audio_list is not followed
NoDiscovery == pages = <<>> /\ fetch = [cat |-> 1, file_list |-> <<>>, returned |-> TRUE]

\* no wrapper call is followed on its own
NoRetry ==
  retry = [max_retries |-> max_retries, outcomes |-> <<>>, attempt |-> 0,
           calls |-> 0, sleeps |-> 0, pc |-> "idle"]

\* download_file of working.py is not running
NoWorking ==
  working = [size |-> 0, skip_head |-> FALSE, hasLength |-> FALSE, disk0 |-> NoFile,
             disk |-> NoFile, pc |-> "idle", existing_size |-> 0,
             total_file_size |-> 0, offset |-> 0, append |-> FALSE, attempt |-> 0,
             remaining |-> 0, gets |-> 0, faults |-> 0, logged |-> 0]

InitWith(n, e, f) ==
  /\ env \in e
  /\ items = [r \in 1..n |-> NewItem]
  /\ cache = items
  /\ disk = [r \in 1..n |-> NoFile]
  /\ journal = [r \in 1..n |-> 0]
  /\ headTodo = 1..n
  /\ mpc = "head"
  /\ saving = {}
  /\ wpc = [r \in 1..n |-> "queued"]
  /\ loc = [r \in 1..n |-> NoLoc]
  /\ run = [no |-> 1, faults |-> f, loaded |-> items, disk0 |-> disk,
            net |-> FALSE, wrote |-> FALSE, saveFailed |-> FALSE]

\* one record, every remote size and server: the life of a record across runs
\* and kills, with up to MaxFaults faults
Init ==
  /\ InitWith(1, [size : 1..MaxSize, honoursRange : BOOLEAN, hasLength : BOOLEAN], 0)
  /\ NoDiscovery
  /\ NoRetry
  /\ NoWorking

\* a catalog larger than the pool, one chunk per file, a server that honours
\* Range, and a single fault
InitPool ==
  /\ InitWith(NumRecords, [size : {1}, honoursRange : {TRUE}, hasLength : BOOLEAN],
              MaxFaults - 1)
  /\ NoDiscovery
  /\ NoRetry
  /\ NoWorking

\* ------------------------------------------------------- the size-check pass
\* lines 229-237: one HEAD future consumed by the size-check loop
HeadResult(r) ==
  /\ mpc = "head"
  /\ r \in headTodo
  /\ headTodo' = headTodo \ {r}
  /\ \/ /\ items' = [items EXCEPT ![r].total_size =
                        IF env.hasLength THEN env.size ELSE 0]
        /\ run' = NetOk
     \/ /\ CanFault
        /\ items' = [items EXCEPT ![r].status = "failed"]
        /\ run' = NetFault
  /\ UNCHANGED <<retry, working, pages, fetch, env, cache, disk, journal, mpc, saving, wpc, loc>>

\* line 239: save_cache(file_list) is entered
HeadSave ==
  /\ mpc = "head"
  /\ headTodo = {}
  /\ mpc' = "headsave"
  /\ saving' = saving \cup {<<"head", 0>>}
  /\ UNCHANGED <<retry, working, pages, fetch, env, items, cache, disk, journal, headTodo, wpc, loc, run>>

\* lines 73-78: json.dump has written the catalog and save_cache returns; or
\* open raised and the file is as it was, or json.dump raised and the file is
\* cut short (the next load_cache starts fresh): the except branch prints and
\* save_cache returns all the same
SaveEnd(s) ==
  /\ s \in saving
  /\ saving' = saving \ {s}
  /\ mpc' = IF mpc = "headsave" THEN "pool"
            ELSE IF mpc = "final" THEN "done" ELSE mpc
  /\ \/ /\ cache' = items
        /\ UNCHANGED run
     \/ /\ CanFault
        /\ cache' \in {cache, [r \in Recs |-> NewItem]}
        /\ run' = [run EXCEPT !.faults = @ + 1, !.saveFailed = TRUE]
  /\ UNCHANGED <<retry, working, pages, fetch, env, items, disk, journal, headTodo, wpc, loc>>

\* ------------------------------------------------------------ download_file
\* lines 128-132 and 202-206: an attempt of r raised, with locals l, run
\* observations n and catalog its: sleep and go round the loop, or re-raise
\* into download_file's except branch
AttemptFailed(r, l, n, its) ==
  /\ run' = n
  /\ IF MoreAttempts(l.attempt)
     THEN /\ wpc' = [wpc EXCEPT ![r] = "sleep"]
          /\ loc' = [loc EXCEPT ![r] = [l EXCEPT !.sleeps = @ + 1]]
          /\ items' = its
          /\ UNCHANGED journal
     ELSE /\ wpc' = [wpc EXCEPT ![r] = "returned"]
          /\ items' = [its EXCEPT ![r].status = "failed"]
          /\ journal' = [journal EXCEPT ![r] = @ + 1]
          /\ loc' = [loc EXCEPT ![r] = [l EXCEPT !.logged = @ + 1, !.modified = TRUE]]

\* lines 125-127 and 140-142: one attempt calls download_with_retry with the
\* headers and the mode it was given: the GET is issued and the file is opened
Attempt(r, l0, its) ==
  LET l == [l0 EXCEPT !.gets = @ + 1]
      n == BodyLength(l.offset)
  IN \/ /\ CanFault                      \* connect error, timeout
        /\ AttemptFailed(r, [l EXCEPT !.err = "transport"], NetFault, its)
        /\ UNCHANGED disk
     \/ /\ CanFault                      \* 4xx/5xx: raise_for_status raises
        /\ AttemptFailed(r, [l EXCEPT !.err = "http"], NetFault, its)
        /\ disk' = [disk EXCEPT ![r] = AfterHttpError(l.append, @)]
     \/ /\ n < 0                         \* 416: raise_for_status raises
        /\ AttemptFailed(r, [l EXCEPT !.err = "http"], NetOk, its)
        /\ disk' = [disk EXCEPT ![r] = AfterHttpError(l.append, @)]
     \/ /\ n >= 0
        /\ CanFault                      \* open(filepath, mode) raises
        /\ AttemptFailed(r, [l EXCEPT !.err = "fs"], NetFault, its)
        /\ UNCHANGED disk
     \/ /\ n >= 0
        /\ disk' = [disk EXCEPT ![r] = Opened(l.append, @)]
        /\ loc' = [loc EXCEPT ![r] = [l EXCEPT !.remaining = n, !.err = "none"]]
        /\ wpc' = [wpc EXCEPT ![r] = "stream"]
        /\ run' = [run EXCEPT !.net = TRUE,
                              !.wrote = @ \/ (disk[r] # NoFile /\ ~l.append)]
        /\ items' = its
        /\ UNCHANGED journal

\* lines 150-192: a worker takes r's task from the queue and runs download_file
\* up to the first attempt of download_with_retry
Start(r) ==
  /\ mpc \in {"pool", "unwind"}
  /\ wpc[r] = "queued"
  /\ \A q \in Recs : q < r => wpc[q] # "queued"
  /\ WorkerAvailable
  /\ \/ /\ CanFault                         \* os.makedirs raises
        /\ wpc' = [wpc EXCEPT ![r] = "raised"]
        /\ run' = [run EXCEPT !.faults = @ + 1]
        /\ UNCHANGED <<items, loc, disk, journal>>
     \/ /\ IsComplete(items[r])
        /\ wpc' = [wpc EXCEPT ![r] = "returned"]
        /\ UNCHANGED <<items, loc, run, disk, journal>>
     \/ /\ ~IsComplete(items[r])
        /\ LET ex == ExistingSize(items[r], disk[r])
               T == items[r].total_size
           IN IF T > 0 /\ ex >= T
              THEN /\ items' = [items EXCEPT ![r].status = "complete",
                                             ![r].downloaded_bytes = T]
                   /\ loc' = [loc EXCEPT ![r].modified = TRUE]
                   /\ wpc' = [wpc EXCEPT ![r] = "returned"]
                   /\ UNCHANGED <<run, disk, journal>>
              ELSE Attempt(r, [loc[r] EXCEPT !.offset = ex, !.append = (ex > 0)],
                           [items EXCEPT ![r].downloaded_bytes = ex])
  /\ UNCHANGED <<retry, working, pages, fetch, env, cache, mpc, headTodo, saving>>

\* lines 125-130: time.sleep(retry_delay) is over and the loop makes the next
\* attempt, with the same arguments
Wake(r) ==
  /\ wpc[r] = "sleep"
  /\ Attempt(r, [loc[r] EXCEPT !.attempt = @ + 1], items)
  /\ UNCHANGED <<retry, working, pages, fetch, env, cache, mpc, headTodo, saving>>

\* lines 143-147: one chunk is written and counted, or the stream breaks
Chunk(r) ==
  /\ wpc[r] = "stream"
  /\ loc[r].remaining > 0
  /\ \/ /\ disk' = [disk EXCEPT ![r] = @ + 1]
        /\ items' = [items EXCEPT ![r].downloaded_bytes = @ + 1]
        /\ loc' = [loc EXCEPT ![r].remaining = @ - 1]
        /\ run' = [run EXCEPT !.wrote = TRUE]
        /\ UNCHANGED <<wpc, journal>>
     \/ /\ CanFault                         \* connection reset, read timeout
        /\ AttemptFailed(r, [loc[r] EXCEPT !.err = "transport"],
                         [run EXCEPT !.faults = @ + 1], items)
        /\ UNCHANGED disk
  /\ UNCHANGED <<retry, working, pages, fetch, env, cache, mpc, headTodo, saving>>

\* lines 192-195: the body is exhausted, download_with_retry returns and the
\* record is marked complete
StreamEnd(r) ==
  /\ wpc[r] = "stream"
  /\ loc[r].remaining = 0
  /\ items' = [items EXCEPT ![r].status = "complete"]
  /\ wpc' = [wpc EXCEPT ![r] = "backfill"]
  /\ UNCHANGED <<retry, working, pages, fetch, env, cache, disk, journal, mpc, headTodo, saving, loc, run>>

\* lines 196-200: total_size is backfilled when unknown; download_file returns
Backfill(r) ==
  /\ wpc[r] = "backfill"
  /\ items' = [items EXCEPT ![r].total_size = BackfilledSize(items[r])]
  /\ loc' = [loc EXCEPT ![r].modified = TRUE]
  /\ wpc' = [wpc EXCEPT ![r] = "returned"]
  /\ UNCHANGED <<retry, working, pages, fetch, env, cache, disk, journal, mpc, headTodo, saving, run>>

\* ------------------------------------------------------------------- fan-in
\* lines 252-261: the loop takes a finished future; future.result() re-raises
\* what download_file raised; a modified result enters save_cache
MainResult(r) ==
  /\ mpc = "pool"
  /\ LoopReady
  /\ wpc[r] \in {"returned", "raised"}
  /\ wpc' = [wpc EXCEPT ![r] = "reaped"]
  /\ loc' = [loc EXCEPT ![r] = NoLoc]
  /\ IF wpc[r] = "raised"
     THEN mpc' = "unwind" /\ UNCHANGED saving
     ELSE /\ saving' = IF loc[r].modified THEN saving \cup {<<"result", r>>} ELSE saving
          /\ UNCHANGED mpc
  /\ UNCHANGED <<retry, working, pages, fetch, env, items, cache, disk, journal, headTodo, run>>

\* lines 247 and 264: every future is consumed, the executor is shut down and
\* the final save_cache is entered
FinalSave ==
  /\ mpc = "pool"
  /\ LoopReady
  /\ \A r \in Recs : wpc[r] = "reaped"
  /\ mpc' = "final"
  /\ saving' = saving \cup {<<"final", 0>>}
  /\ UNCHANGED <<retry, working, pages, fetch, env, items, cache, disk, journal, headTodo, wpc, loc, run>>

\* line 247: the exception of future.result() leaves the with block, whose exit
\* waits for every submitted task; then main() ends with the exception
Unwind ==
  /\ mpc = "unwind"
  /\ \A r \in Recs : wpc[r] \in {"returned", "raised", "reaped"}
  /\ mpc' = "crashed"
  /\ UNCHANGED <<retry, working, pages, fetch, env, items, cache, disk, journal, headTodo, saving, wpc, loc, run>>

\* lines 265-266: what the prints that end main() tell the user, whatever
\* happened in the run
Summary == {"all downloads complete", "where the failed urls are saved"}

\* ------------------------------------------------------------------ restarts
RunEnded == mpc \in {"done", "crashed"}

\* lines 60-70 and 212: the next run loads the saved catalog
NextRun ==
  /\ RunEnded
  /\ run.no < MaxRuns
  /\ BeginRun(cache, run.no + 1, run.faults)
  /\ UNCHANGED <<retry, working, pages, fetch, env, cache, disk, journal>>

\* the process is killed; the next run loads the saved catalog, or, when the
\* kill left a half-written cache file (lines 67-69, 213-214), fetches a new one
Kill ==
  /\ ~RunEnded
  /\ run.no < MaxRuns
  /\ LET c == IF saving = {} THEN cache ELSE [r \in Recs |-> NewItem] IN
     /\ cache' = c
     /\ BeginRun(c, run.no + 1, run.faults)
  /\ UNCHANGED <<retry, working, pages, fetch, env, disk, journal>>

\* --------------------------------------------------------- fetch_audio_list
\* the audio hrefs a category page may carry: a path under base_url, written
\* relative or with a leading slash
Hrefs ==
  { [abs |-> FALSE, path |-> <<"a.mp3">>],
    [abs |-> TRUE,  path |-> <<"a.mp3">>],
    [abs |-> FALSE, path |-> <<"d", "a.mp3">>],
    [abs |-> FALSE, path |-> <<"b.mp3">>] }

\* re.findall on a category page: the hrefs in page order, repeats included
LinkLists == UNION {[1..k -> Hrefs] : k \in 0..MaxLinks}

\* line 102: urljoin(base_url, audio_href); base_url is the root of the site, so
\* a relative path and the same path with a leading slash give the same url
AudioUrl(h) == h.path

\* line 103: audio_href.split('/')[-1]
Filename(h) == h.path[Len(h.path)]

\* lines 104-111: the record appended for href h of category c
AudioItem(c, h) ==
  [category |-> c, filename |-> Filename(h), url |-> AudioUrl(h),
   downloaded_bytes |-> 0, total_size |-> 0, status |-> "pending"]

\* line 99: list(set(...)): the distinct hrefs of the page, in any order
AudioUrls(links) ==
  LET S == {links[i] : i \in DOMAIN links}
  IN {ord \in [1..Cardinality(S) -> S] :
        \A i, j \in DOMAIN ord : i # j => ord[i] # ord[j]}

\* every site of MaxCats category pages (sayadaw_links is sorted(set(...)): the
\* categories are distinct and are named by their position)
InitFetch ==
  /\ InitWith(1, {[size |-> 1, honoursRange |-> TRUE, hasLength |-> TRUE]}, 0)
  /\ NoRetry
  /\ NoWorking
  /\ pages \in [1..MaxCats -> LinkLists]
  /\ fetch = [cat |-> 1, file_list |-> <<>>, returned |-> FALSE]

\* lines 91-113: one round of the loop over sayadaw_links: the records of the
\* category are appended, or the request of the page raises and the category
\* is left out
FetchCategory ==
  /\ ~fetch.returned
  /\ fetch.cat <= Len(pages)
  /\ \/ \E ord \in AudioUrls(pages[fetch.cat]) :
          fetch' = [fetch EXCEPT
                      !.cat = @ + 1,
                      !.file_list = @ \o [i \in DOMAIN ord |-> AudioItem(fetch.cat, ord[i])]]
     \/ fetch' = [fetch EXCEPT !.cat = @ + 1]
  /\ UNCHANGED <<retry, working, pages, env, items, cache, disk, journal, mpc, headTodo, saving,
                 wpc, loc, run>>

\* lines 115-116: fetch_audio_list returns file_list to main()
FetchReturn ==
  /\ ~fetch.returned
  /\ fetch.cat > Len(pages)
  /\ fetch' = [fetch EXCEPT !.returned = TRUE]
  /\ UNCHANGED <<retry, working, pages, env, items, cache, disk, journal, mpc, headTodo, saving,
                 wpc, loc, run>>

\* ------------------------------------------------------------ retry_request
\* lines 123-133, for any value of max_retries: retry.outcomes[k] tells whether
\* the k-th call of the wrapped function returns (TRUE) or raises (FALSE)
InitRetry ==
  /\ InitWith(1, {[size |-> 1, honoursRange |-> TRUE, hasLength |-> TRUE]}, 0)
  /\ NoDiscovery
  /\ NoWorking
  /\ retry \in [max_retries : 0..MaxRetriesCfg,
                outcomes : [1..MaxRetriesCfg -> BOOLEAN],
                attempt : {0}, calls : {0}, sleeps : {0}, pc : {"for"}]

RetryUnchanged ==
  UNCHANGED <<working, pages, fetch, env, items, cache, disk, journal, mpc,
              headTodo, saving, wpc, loc, run>>

\* line 125: for attempt in range(max_retries): the next value is taken, or
\* the range is exhausted and the wrapper falls off its end, returning None
RetryFor ==
  /\ retry.pc = "for"
  /\ retry' = [retry EXCEPT !.pc = IF retry.attempt < retry.max_retries
                                    THEN "call" ELSE "returned"]
  /\ RetryUnchanged

\* lines 126-132: the wrapped function is called: its value is returned, or
\* its exception is caught and the wrapper sleeps or re-raises
RetryCall ==
  /\ retry.pc = "call"
  /\ LET k == retry.calls + 1 IN
       retry' = [retry EXCEPT
                   !.calls = k,
                   !.sleeps = IF ~retry.outcomes[k] /\ retry.attempt < retry.max_retries - 1
                              THEN @ + 1 ELSE @,
                   !.pc = IF retry.outcomes[k] THEN "returned"
                          ELSE IF retry.attempt < retry.max_retries - 1 THEN "sleep"
                          ELSE "raised"]
  /\ RetryUnchanged

\* line 130: time.sleep(retry_delay) is over; the loop goes on
RetrySleep ==
  /\ retry.pc = "sleep"
  /\ retry' = [retry EXCEPT !.attempt = @ + 1, !.pc = "for"]
  /\ RetryUnchanged

\* lines 192-194 and 202-204: download_file after the wrapper: the record is
\* set to complete when it returned, to failed when it raised
RetryResult ==
  /\ retry.pc \in {"returned", "raised"}
  /\ retry' = [retry EXCEPT !.pc = IF @ = "returned" THEN "complete" ELSE "failed"]
  /\ RetryUnchanged

\* ------------------------------------------- download_file of working.py
\* every file on disk (absent, empty, partial, whole), every remote size, with
\* and without the HEAD request, answered with or without Content-Length
InitWorking ==
  /\ InitWith(1, {[size |-> 1, honoursRange |-> TRUE, hasLength |-> TRUE]}, 0)
  /\ NoDiscovery
  /\ NoRetry
  /\ \E sz \in 1..MaxSize, d \in NoFile..MaxSize, sh \in BOOLEAN, hl \in BOOLEAN :
        working = [size |-> sz, skip_head |-> sh, hasLength |-> hl, disk0 |-> d,
                   disk |-> d, pc |-> "start", existing_size |-> 0,
                   total_file_size |-> 0, offset |-> 0, append |-> FALSE,
                   attempt |-> 0, remaining |-> 0, gets |-> 0, faults |-> 0,
                   logged |-> 0]

WorkingUnchanged ==
  UNCHANGED <<retry, pages, fetch, env, items, cache, disk, journal, mpc,
              headTodo, saving, wpc, loc, run>>

WCanFault == working.faults < MaxFaults

\* working.py lines 152-156: nothing to do when the file on disk reaches the
\* size HEAD gave; else the Range header and the mode for the transfer
WPrepared(w) ==
  IF w.total_file_size # 0 /\ w.existing_size >= w.total_file_size
  THEN [w EXCEPT !.pc = "skipped"]
  ELSE [w EXCEPT !.offset = w.existing_size, !.append = (w.existing_size > 0),
                 !.pc = "request"]

\* working.py lines 116-120 and 170-173: an attempt raised: sleep and go round
\* the loop, or re-raise into the except branch, which logs the url
WFailed(w) ==
  IF w.attempt < w_max_retries - 1
  THEN [w EXCEPT !.faults = @ + 1, !.pc = "sleep"]
  ELSE [w EXCEPT !.faults = @ + 1, !.logged = @ + 1, !.pc = "failed"]

\* the body a server that honours Range sends for a request from offset
WBodyLength(w) ==
  IF w.offset > 0 /\ w.offset < w.size THEN w.size - w.offset ELSE w.size

\* working.py lines 135-145: os.makedirs; a file that exists with size > 0 is
\* skipped; else existing_size is read and the HEAD request is made or not
WStart ==
  /\ working.pc = "start"
  /\ \/ /\ WCanFault
        /\ working' = [working EXCEPT !.faults = @ + 1, !.pc = "raised"]
     \/ /\ working.disk > 0
        /\ working' = [working EXCEPT !.pc = "skipped"]
     \/ /\ working.disk <= 0
        /\ LET w == [working EXCEPT
                       !.existing_size = IF working.disk = NoFile THEN 0 ELSE working.disk]
           IN working' = IF w.skip_head THEN WPrepared(w) ELSE [w EXCEPT !.pc = "head"]
  /\ WorkingUnchanged

\* working.py lines 146-156: the HEAD request gives the size, or 0 without
\* Content-Length or when it raises
WHead ==
  /\ working.pc = "head"
  /\ \/ working' = WPrepared([working EXCEPT !.total_file_size =
                                 IF working.hasLength THEN working.size ELSE 0])
     \/ /\ WCanFault
        /\ working' = WPrepared([working EXCEPT !.faults = @ + 1])
  /\ WorkingUnchanged

\* working.py lines 125-127: the GET is issued and the file is opened
WRequest ==
  /\ working.pc = "request"
  /\ LET w == [working EXCEPT !.gets = @ + 1] IN
       \/ /\ WCanFault
          /\ working' = WFailed(w)
       \/ working' = [w EXCEPT !.disk = Opened(w.append, @),
                               !.remaining = WBodyLength(w), !.pc = "stream"]
  /\ WorkingUnchanged

\* working.py lines 128-131: one chunk is written, or the stream breaks
WChunk ==
  /\ working.pc = "stream"
  /\ working.remaining > 0
  /\ \/ working' = [working EXCEPT !.disk = @ + 1, !.remaining = @ - 1]
     \/ /\ WCanFault
        /\ working' = WFailed(working)
  /\ WorkingUnchanged

\* working.py lines 113-118: the sleep is over, the next attempt is made with
\* the same arguments
WWake ==
  /\ working.pc = "sleep"
  /\ working' = [working EXCEPT !.attempt = @ + 1, !.pc = "request"]
  /\ WorkingUnchanged

\* working.py lines 168-169: download_with_retry returned
WEnd ==
  /\ working.pc = "stream"
  /\ working.remaining = 0
  /\ working' = [working EXCEPT !.pc = "done"]
  /\ WorkingUnchanged

\* ------------------------------------------------------------ specifications
RunStep ==
  \/ \E r \in Recs : HeadResult(r)
  \/ HeadSave
  \/ \E s \in saving : SaveEnd(s)
  \/ \E r \in Recs : Start(r)
  \/ \E r \in Recs : Chunk(r)
  \/ \E r \in Recs : StreamEnd(r)
  \/ \E r \in Recs : Backfill(r)
  \/ \E r \in Recs : Wake(r)
  \/ \E r \in Recs : MainResult(r)
  \/ FinalSave
  \/ Unwind
  \/ NextRun

Next == RunStep \/ Kill

\* one record, followed across runs and kills
Spec == Init /\ [][Next]_vars

\* a catalog larger than the pool, run after run
SpecPool == InitPool /\ [][RunStep]_vars

RetryStep == RetryFor \/ RetryCall \/ RetrySleep \/ RetryResult

\* the retry wrapper, for every max_retries and every outcome of the calls
SpecRetry == InitRetry /\ [][RetryStep]_vars

WorkingStep == WStart \/ WHead \/ WRequest \/ WChunk \/ WWake \/ WEnd

\* download_file of working.py, for every file on disk and remote size
SpecWorking == InitWorking /\ [][WorkingStep]_vars

FetchStep == FetchCategory \/ FetchReturn

\* fetch_audio_list on every small site
SpecFetch == InitFetch /\ [][FetchStep]_vars

\* ------------------------------------------------------------------- claims
Status(r) == items[r].status
Bytes(r) == items[r].downloaded_bytes
Total(r) == items[r].total_size

\* download_file has returned for r and the loop has not consumed it yet
Returned(r) == wpc[r] = "returned"

\* C1: a call of download_file whose attempts all failed made exactly
\* max_retries attempts with max_retries - 1 sleeps between them (a sleep
\* follows each attempt but the last), set the record to failed and appended
\* exactly one journal line.
C1_RetryBound ==
  \A r \in Recs :
    /\ (Returned(r) /\ Status(r) = "failed") =>
         /\ loc[r].gets = max_retries
         /\ loc[r].sleeps = max_retries - 1
         /\ loc[r].logged = 1
    /\ wpc[r] = "sleep" => loc[r].gets = loc[r].sleeps /\ loc[r].logged = 0
    /\ wpc[r] = "stream" => loc[r].gets = loc[r].sleeps + 1 /\ loc[r].logged = 0

C1_Witness ==
  \E r \in Recs :
    /\ Returned(r) /\ Status(r) = "failed"
    /\ loc[r].gets = max_retries /\ journal[r] = 1

\* C2: while the retry loop waits before the next attempt, the offset and the
\* mode that attempt will use are the ones derived from the record and the
\* file as they are now, after the failed attempt.
C2_OffsetRederived ==
  \A r \in Recs :
    wpc[r] = "sleep" =>
      /\ loc[r].offset = ExistingSize(items[r], disk[r])
      /\ loc[r].append = (ExistingSize(items[r], disk[r]) > 0)

\* C3: when the server ignores Range and the first attempt of a call that
\* resumed from the k > 0 bytes on disk has succeeded, the file has the size of
\* the remote file.
C3_RangeIgnoredRestart ==
  \A r \in Recs :
    ( /\ wpc[r] = "backfill"
      /\ ~env.honoursRange
      /\ loc[r].attempt = 0
      /\ loc[r].offset > 0
      /\ loc[r].offset = run.disk0[r]
      /\ loc[r].offset < env.size ) => disk[r] = env.size

\* C4: a record loaded not complete with known total_size T, whose file held k
\* bytes, 0 < k < T, at the start of the run, and whose first attempt succeeded
\* against a server that honours Range, was requested from offset k and ends
\* with file size T, downloaded_bytes T and status complete.
C4_Resume ==
  \A r \in Recs :
    LET T == run.loaded[r].total_size
        k == run.disk0[r]
    IN ( /\ wpc[r] = "backfill"
         /\ env.honoursRange
         /\ loc[r].attempt = 0
         /\ run.loaded[r].status # "complete"
         /\ T > 0 /\ 0 < k /\ k < T ) =>
           /\ loc[r].offset = k
           /\ disk[r] = T
           /\ Bytes(r) = T
           /\ Status(r) = "complete"

\* C5: a record with known total_size never counts more bytes than that.
C5_BytesWithinTotal ==
  \A r \in Recs : Total(r) > 0 => 0 <= Bytes(r) /\ Bytes(r) <= Total(r)

\* C6: once download_file has returned for a record that is complete, its
\* downloaded_bytes equals its total_size.
C6_CompleteIsWhole ==
  \A r \in Recs :
    (wpc[r] \in {"returned", "reaped"} /\ Status(r) = "complete") =>
      Bytes(r) = Total(r)

\* C7: when a run has ended, the saved catalog holds the state of every record
\* as the workers left it.
C7_NoLostUpdate == RunEnded => cache = items

\* C8: at most one execution of save_cache is in progress.
C8_SavesSerialized == Cardinality(saving) <= 1

C8_Witness ==
  \E r, q \in Recs :
    /\ saving = {<<"result", r>>}
    /\ q # r /\ Returned(q) /\ loc[q].modified

\* C9: at most max_threads transfers are in flight, over the whole catalog.
C9_PoolBound == Cardinality(InFlight) <= max_threads

C9_Witness ==
  /\ Cardinality(InFlight) = max_threads
  /\ \E r \in Recs : wpc[r] = "queued"
  /\ \E r \in Recs : wpc[r] = "sleep"

\* C10: a run that loaded a catalog whose records are all complete issues no
\* network request, writes to no file and changes no record, each time.
C10_Idempotent ==
  (run.no > 1 /\ \A r \in Recs : run.loaded[r].status = "complete") =>
    /\ ~run.net
    /\ ~run.wrote
    /\ disk = run.disk0
    /\ items = run.loaded

C10_Witness ==
  /\ run.no = 3
  /\ mpc = "done"
  /\ run.faults = MaxFaults - 1
  /\ \A r \in Recs : run.loaded[r].status = "complete"

\* C11: within a run, a record that is complete stays complete, and a status
\* changes only from pending to complete, from pending to failed or from
\* failed to complete; a later run starts every record from its saved status,
\* so a record saved as complete is complete in the run that loads it.
C11_CompleteIsFinal ==
  [][\A r \in Recs :
       IF run'.no = run.no
       THEN /\ Status(r) = "complete" => items'[r].status = "complete"
            /\ items'[r].status # Status(r) =>
                 <<Status(r), items'[r].status>> \in
                   { <<"pending", "complete">>, <<"pending", "failed">>,
                     <<"failed", "complete">> }
       ELSE items'[r].status = cache'[r].status]_vars

C11_Witness ==
  \E r \in Recs :
    /\ run.no = 3
    /\ run.loaded[r].status = "complete"
    /\ wpc[r] = "reaped"
    /\ mpc = "done"
    /\ Status(r) = "complete"
    /\ journal[r] > 0

\* C12: a record loaded as failed is dispatched in the run and download_file
\* does not skip it: when the call returns the record was modified, after at
\* least one transfer attempt or, with no attempt, by the short-circuit to
\* complete; it is complete whenever an attempt succeeded.
C12_FailedIsRetried ==
  \A r \in Recs :
    run.loaded[r].status = "failed" =>
      /\ RunEnded => wpc[r] # "queued"
      /\ Returned(r) =>
           /\ loc[r].modified
           /\ loc[r].gets > 0 \/ Status(r) = "complete"
           /\ loc[r].logged = 0 => Status(r) = "complete"
      /\ wpc[r] = "backfill" => Status(r) = "complete"

C12_Witness ==
  \E r \in Recs :
    /\ run.loaded[r].status = "failed"
    /\ Returned(r)
    /\ loc[r].gets > 0
    /\ loc[r].logged = 0
    /\ Status(r) = "complete"

C14_ShortCircuit ==
  [][\A r \in Recs :
       ( /\ run'.no = run.no
         /\ wpc[r] = "queued"
         /\ wpc'[r] \notin {"queued", "raised"}
         /\ Status(r) # "complete"
         /\ Total(r) > 0
         /\ Bytes(r) >= Total(r) \/ disk[r] >= Total(r) ) =>
           /\ wpc'[r] = "returned"
           /\ items'[r].status = "complete"
           /\ loc'[r].gets = 0
           /\ run'.net = run.net
           /\ run'.wrote = run.wrote
           /\ disk'[r] = disk[r]]_vars

\* the call found the whole file on disk although the stored count was short
C14_Witness ==
  \E r \in Recs :
    /\ Returned(r)
    /\ loc[r].modified
    /\ loc[r].gets = 0
    /\ ~run.net
    /\ run.loaded[r].status # "complete"
    /\ run.loaded[r].downloaded_bytes < run.loaded[r].total_size
    /\ run.disk0[r] >= run.loaded[r].total_size
    /\ Status(r) = "complete"

\* C15: an attempt whose GET is answered with an error status (raise_for_status
\* raises) leaves the destination file as it was, absent or of the same size,
\* and downloaded_bytes at the value the call reconciled before the attempt,
\* whether the attempt was to open the file in mode 'wb' or 'ab'.
C15_HttpErrorTouchesNothing ==
  [][\A r \in Recs :
       ( /\ run'.no = run.no
         /\ loc'[r].gets = loc[r].gets + 1
         /\ loc'[r].err = "http" ) =>
           /\ disk'[r] = disk[r]
           /\ items'[r].downloaded_bytes =
                IF wpc[r] = "queued" THEN ExistingSize(items[r], disk[r])
                ELSE Bytes(r)]_vars

\* an error status met by an attempt in mode 'wb' while the file holds data
C15_Witness ==
  \E r \in Recs :
    /\ wpc[r] = "sleep"
    /\ loc[r].err = "http"
    /\ ~loc[r].append
    /\ disk[r] > 0

\* C16: a step of a run that sets a record's status to failed is made by a
\* download_file call that has made max_retries attempts, and it appends a
\* journal line for the record.
C16_FailedIsJournaled ==
  [][\A r \in Recs :
       ( /\ run'.no = run.no
         /\ Status(r) # "failed"
         /\ items'[r].status = "failed" ) =>
           /\ journal'[r] = journal[r] + 1
           /\ loc'[r].gets = max_retries]_vars

\* C17: a run in which a save_cache call failed goes on to consume every
\* result and to the end of main(), and the summary printed there tells that
\* a save failed.
C17_SaveFailureReported ==
  (run.saveFailed /\ mpc = "done") =>
    /\ \A r \in Recs : wpc[r] = "reaped"
    /\ "a save failed" \in Summary

\* C18: no step of a run changes a total_size that is positive, and a run
\* starts every record from its saved total_size.
C18_TotalSizeFixed ==
  [][\A r \in Recs :
       IF run'.no = run.no
       THEN Total(r) > 0 => items'[r].total_size = Total(r)
       ELSE items'[r].total_size = cache'[r].total_size]_vars

\* a record whose size was known before the run went through the size-check
\* pass and a successful transfer that counted another number of bytes
C18_Witness ==
  \E r \in Recs :
    /\ run.no > 1
    /\ run.loaded[r].total_size > 0
    /\ run.loaded[r].status # "complete"
    /\ Returned(r)
    /\ loc[r].gets > 0
    /\ Status(r) = "complete"
    /\ Bytes(r) # Total(r)
    /\ Total(r) = run.loaded[r].total_size

\* C19: the file_list that fetch_audio_list returns holds no two records with
\* the same url.
C19_UrlsUnique ==
  fetch.returned =>
    \A i, j \in DOMAIN fetch.file_list :
      i # j => fetch.file_list[i].url # fetch.file_list[j].url

\* C20: when a run has ended, every record that was not complete when the run
\* loaded it has gone through download_file and is complete or failed.
C20_NoneLeftPending ==
  RunEnded =>
    \A r \in Recs :
      run.loaded[r].status # "complete" =>
        /\ wpc[r] = "reaped"
        /\ Status(r) \in {"complete", "failed"}

\* C21: while the result of a download_file call that set its record to
\* complete or failed waits to be taken by the as_completed loop, the saved
\* catalog already holds the record as the call left it.
C21_SavedBeforeFanIn ==
  \A r \in Recs :
    (Returned(r) /\ loc[r].modified /\ Status(r) \in {"complete", "failed"}) =>
      cache[r] = items[r]

\* C22: at the point where download_file has set a record to complete after
\* download_with_retry returned, the destination file has as many bytes as
\* the record counts.
C22_DiskMatchesCount ==
  \A r \in Recs : wpc[r] = "backfill" => disk[r] = Bytes(r)

\* C23: every record that the saved catalog holds as complete has
\* downloaded_bytes equal to total_size there.
C23_SnapshotConsistent ==
  \A r \in Recs :
    cache[r].status = "complete" => cache[r].downloaded_bytes = cache[r].total_size

\* C24: no two records of the file_list that fetch_audio_list returns have the
\* same category and the same filename, that is, the same destination path.
C24_PathsUnique ==
  fetch.returned =>
    \A i, j \in DOMAIN fetch.file_list :
      i # j =>
        <<fetch.file_list[i].category, fetch.file_list[i].filename>> #
          <<fetch.file_list[j].category, fetch.file_list[j].filename>>

\* C25: for every max_retries from 0, the wrapper has returned, and
\* download_file has set the record to complete after it, only if the wrapped
\* function was called at least once and its last call returned.
C25_ReturnNeedsSuccess ==
  retry.pc \in {"returned", "complete"} =>
    /\ retry.calls >= 1
    /\ retry.outcomes[retry.calls]

\* C26: a call of download_file of working.py that found the destination file
\* with s bytes, 0 < s < remote size, has, when it is over without an error
\* of os.makedirs, issued a GET for Range bytes=s- and opened the file to
\* append; if the transfer succeeded the file has the remote size.
C26_WorkingResumes ==
  ( /\ working.pc \in {"skipped", "done", "failed"}
    /\ 0 < working.disk0
    /\ working.disk0 < working.size ) =>
      /\ working.gets >= 1
      /\ working.offset = working.disk0
      /\ working.append
      /\ working.pc = "done" => working.disk = working.size
====
